---- MODULE Spec2Model ----
(***************************************************************************)
(* A model of gobal (zorkian/gobal): the pool / backend manager of        *)
(* pool.go, the service registry and dispatch loop of service.go and the  *)
(* HTTP connection pump of http.go.                                       *)
(*                                                                         *)
(* Strings whose characters matter (node-file lines) are sequences of     *)
(* one-character strings, so that the Go string functions can be modelled *)
(* by what they compute.                                                  *)
(***************************************************************************)
EXTENDS Integers, Sequences, FiniteSets, TLC

VARIABLES
    \* ---- node-file line parsing (pool.go:151-158), one line at a time
    line,          \* the raw line as bufio.Reader.ReadString returned it
    parsed,        \* [done, ok, addr]: the outcome of parsing `line`
    \* ---- path resolution (http.go:45-61), one request at a time
    root,          \* the document root CleanPath is called with
    uri,           \* the request URI it is called with
    resolved,      \* [done, err, path]: what CleanPath returned
    \* ---- the file system and the pools (pool.go)
    fs,            \* node file path -> [mtime, content]
    pools,         \* the registry `pools`: name -> Pool
    nodeFileLock,  \* Pool.nodeFileLock: pool name -> its holder
    wpc,           \* position of each pool's updateNodeFileWorker goroutine
    workers,       \* per name, the updateNodeFileWorker goroutines started
    mtime,         \* the worker's local `mtime`
    newgen,        \* the worker's local `newgen`
    lastStat,      \* outcome of the worker's latest iteration
    statAdvanced,  \* whether the latest stat saw a later modification time
    setpc,         \* position of a Pool.Set("nodefile", ..) call in progress
    setArg,        \* the cleaned path that call is installing
    gbResult,      \* what the latest Pool.GetBackend call returned
    ret,           \* what the latest control-interface call returned
    \* ---- one Backend and its Connect calls (pool.go:57-71)
    connectMutex,  \* Backend.connectMutex: 0 when free, else its holder
    connecting,    \* Backend.connecting
    cpc,           \* position of each caller of Connect
    dialsWaiting,  \* goroutines of pool.go:65 that wait for the mutex
    dialsDone,     \* goroutines of pool.go:65 that have ended
    backendQueue,  \* Pool.backendQueue: the connections that are on it
    backendUp,     \* whether the backend's address accepts connections
    \* ---- services, listeners and client connections
    serviceLock,   \* serviceLock: 0 when free, else the NewService call holding it
    nspc,          \* position of each NewService call
    nsArg,         \* the name it was called with
    nsRet,         \* what it returned last
    services,      \* the registry `services`: name -> Service
    created,       \* per name, the Service objects made (service.go:92-99)
    rpc,           \* position of each service's requestPump goroutine
    tcpListeners,  \* the TcpListener objects made, by number
    conn,          \* the client connections
    crashed        \* the process has panicked

poolVars == <<fs, pools, nodeFileLock, wpc, workers, mtime, newgen, lastStat,
              statAdvanced, setpc, setArg, gbResult, ret>>
parseVars == <<line, parsed, root, uri, resolved>>
beVars == <<connectMutex, connecting, cpc, dialsWaiting, dialsDone,
            backendQueue, backendUp>>
svcVars == <<serviceLock, nspc, nsArg, nsRet, services, created, rpc,
             tcpListeners, conn, crashed>>
vars == <<parseVars, poolVars, beVars, svcVars>>

-----------------------------------------------------------------------------
(* Go string helpers: strings.TrimSpace, strings.Index, slicing.           *)

\* unicode.IsSpace, restricted to the characters that occur in the model
IsSpace(c) == c \in {" ", "\t", "\n", "\r"}

RECURSIVE TrimLeft(_)
TrimLeft(s) ==
    IF s # <<>> /\ IsSpace(Head(s)) THEN TrimLeft(Tail(s)) ELSE s

RECURSIVE TrimRight(_)
TrimRight(s) ==
    IF s # <<>> /\ IsSpace(s[Len(s)])
    THEN TrimRight(SubSeq(s, 1, Len(s) - 1))
    ELSE s

\* strings.TrimSpace: leading and trailing white space removed
TrimSpace(s) == TrimRight(TrimLeft(s))

\* strings.Index(s, c) for a one-character c: the 0-based index of the first
\* occurrence, -1 when there is none
Index(s, c) ==
    IF \E i \in 1..Len(s) : s[i] = c
    THEN (CHOOSE i \in 1..Len(s) : s[i] = c /\ \A j \in 1..(i - 1) : s[j] # c) - 1
    ELSE -1

\* "At least 1.2.3.4" (pool.go:156)
MinAddrLen == 7

\* pool.go:151-155: the text of a raw line that is taken for the address
StripLine(raw) ==
    LET trimmed == TrimSpace(raw)
        idx == Index(trimmed, "#")
    IN  IF idx > -1 THEN SubSeq(trimmed, 1, idx) ELSE trimmed

\* pool.go:156-158: the line is skipped (`continue`) when too short
LineSkipped(raw) == Len(StripLine(raw)) < MinAddrLen

\* pool.go:151-158 as one result: whether the line names a backend, and which
ParseLine(raw) == [ok |-> ~LineSkipped(raw), addr |-> StripLine(raw)]

-----------------------------------------------------------------------------
(* Bounds and input sets.                                                  *)

MaxLineLen == 9
Alphabet == {"1", " ", "#"}

RECURSIVE SeqsUpTo(_, _)
SeqsUpTo(S, n) ==
    IF n = 0 THEN {<<>>}
    ELSE LET shorter == SeqsUpTo(S, n - 1)
         IN  shorter \cup {Append(s, c) : s \in {t \in shorter : Len(t) = n - 1}, c \in S}

Lines == SeqsUpTo(Alphabet, MaxLineLen)

-----------------------------------------------------------------------------
(* The file system, as far as the pool reads it.                           *)

\* The one node file an operator edits, a directory, and a path that names
\* nothing.  The empty path is Pool.nodeFile before any Set.
Files == {"nodes"}
Dirs == {"confdir"}
PathArgs == {"nodes", "confdir", "missing"}
PoolNames == {"web"}

AddrA == <<"1", ".", "1", ".", "1", ".", "1">>
AddrB == <<"2", ".", "2", ".", "2", ".", "2">>
AddrACommented == AddrA \o <<" ", "#", "c">>
CommentOnly == <<"#", " ", "c">>
TooShort == <<"1", ".", "1">>

\* A file's text as its lines without their newlines: the text split at
\* every "\n", so there is always at least one (possibly empty) line.
Contents ==
    { <<AddrA>>,
      <<AddrB, <<>>>>,
      <<AddrA, AddrB>>,
      <<AddrACommented, CommentOnly, <<>>>>,
      <<AddrA, TooShort, AddrA>> }

\* Modification times are ticks 1..MaxMtime.
MaxMtime == 3

\* os.Stat(path) returns an error
StatFails(path) == path \notin (Files \cup Dirs)

\* os.FileInfo.IsDir
IsDir(path) == path \in Dirs

\* "not before" in place of "after"
AfterOrEqual(t, u) == t >= u

\* time.Time.After
After(t, u) == t > u

-----------------------------------------------------------------------------
(* Pool and Backend (pool.go:24-46).  Of a Backend only the fields the    *)
(* reconciliation touches are kept; connecting and outstanding are        *)
(* modelled with Backend.Connect below.                                   *)

NilConn == "nil"

\* pool.go:169-172
NewBackend(addr, gen) == [Ipport |-> addr, generation |-> gen]

\* pool.go:87-90
EmptyPool == [backends |-> <<>>, nodeFile |-> "", generation |-> 0]

\* bufio.Reader.ReadString('\n') for the i-th line: the delimiter is part of
\* the result except on the last line, which comes with io.EOF
ReadString(content, i) ==
    IF i < Len(content) THEN Append(content[i], "\n") ELSE content[i]

\* pool.go:151-173 for one line read: skip, refresh or append
ApplyLine(backends, raw, gen) ==
    LET pl == ParseLine(raw)
        hits == {i \in 1..Len(backends) : backends[i].Ipport = pl.addr}
    IN  IF ~pl.ok THEN backends
        ELSE IF hits # {}
        THEN LET first == CHOOSE i \in hits : \A j \in hits : i <= j
             IN  [backends EXCEPT ![first].generation = gen]
        ELSE Append(backends, NewBackend(pl.addr, gen))

\* pool.go:137-174 over the first n lines of the file
RECURSIVE ApplyLines(_, _, _, _)
ApplyLines(backends, content, n, gen) ==
    IF n = 0 THEN backends
    ELSE ApplyLine(ApplyLines(backends, content, n - 1, gen),
                   ReadString(content, n), gen)

\* pool.go:204-206
GetBackend(pool) == NilConn

\* No Backend.Connect is going on
BackendIdle ==
    /\ connectMutex = 0
    /\ connecting = NilConn
    /\ cpc = <<>>
    /\ dialsWaiting = 0
    /\ dialsDone = 0
    /\ backendQueue = 0
    /\ backendUp = TRUE

\* The one service has the name of the one pool: `services` and `pools` are
\* maps of their own
ServiceNames == {"web"}
NumCreators == 2
Creators == 1..NumCreators
NumConns == 2
ConnIds == 1..NumConns

\* A connection slot no client has used yet
NoConn ==
    [kind |-> "none", svc |-> "", sock |-> "none", closes |-> 0, pc |-> "none",
     alive |-> FALSE, sent |-> 0, peerClosed |-> FALSE, nread |-> 0,
     ngot |-> 0, nresp |-> 0, rchan |-> [made |-> FALSE, buf |-> <<>>],
     calls |-> 0, flushes |-> 0, flushErr |-> FALSE, closeRet |-> "none",
     buffered |-> 0, delivered |-> 0]

\* No service has been created yet
NoServices ==
    /\ serviceLock = 0
    /\ nspc = [k \in Creators |-> "idle"]
    /\ nsArg = [k \in Creators |-> ""]
    /\ nsRet = [k \in Creators |-> "none"]
    /\ services = [n \in {} |-> 0]
    /\ created = [n \in ServiceNames |-> 0]
    /\ rpc = [n \in ServiceNames |-> "none"]
    /\ tcpListeners = <<>>
    /\ conn = [c \in ConnIds |-> NoConn]
    /\ crashed = FALSE

-----------------------------------------------------------------------------
(* Operations on pools.                                                    *)

Registered(p) == p \in DOMAIN pools

Ok(op) == [op |-> op, err |-> "nil"]
Err(op, e) == [op |-> op, err |-> e]

\* No such pool is ever found
PoolExistsNever(name) == FALSE

\* pool.go:83: the name is taken
PoolExists(name) == name \in DOMAIN pools

\* NewPool (pool.go:79-102), all of it under poolLock: register the pool and
\* start its worker
NewPool(name) ==
    /\ ~crashed
    /\ IF PoolExists(name)
       THEN /\ ret' = Err("NewPool", "exists")
            /\ UNCHANGED <<pools, wpc, workers>>
       ELSE /\ pools' = [n \in DOMAIN pools \cup {name} |->
                            IF n = name THEN EmptyPool ELSE pools[n]]
            /\ wpc' = [wpc EXCEPT ![name] = "lock"]
            /\ workers' = [workers EXCEPT ![name] = @ + 1]
            /\ ret' = Ok("NewPool")
    /\ UNCHANGED <<fs, nodeFileLock, mtime, newgen, lastStat, statAdvanced, setpc, setArg,
                   gbResult, parseVars, beVars, svcVars>>

\* updateNodeFileWorker, pool.go:107-110: take the lock (never released: the
\* deferred Unlock runs only if the endless loop returned), mtime := epoch
WorkerLock(p) ==
    /\ wpc[p] = "lock"
    /\ nodeFileLock[p] = "free"
    /\ nodeFileLock' = [nodeFileLock EXCEPT ![p] = "worker"]
    /\ mtime' = [mtime EXCEPT ![p] = 0]
    /\ wpc' = [wpc EXCEPT ![p] = "stat"]
    /\ UNCHANGED <<workers, fs, pools, newgen, lastStat, statAdvanced, setpc, setArg, gbResult, ret,
                   parseVars, beVars, svcVars>>

\* pool.go:112-125: stat the node file; `continue` on an error or when the
\* modification time has not advanced, else note it and go on to load
WorkerStat(p) ==
    /\ wpc[p] = "stat"
    /\ statAdvanced' = [statAdvanced EXCEPT ![p] =
                            /\ pools[p].nodeFile \in Files
                            /\ fs[pools[p].nodeFile].mtime > mtime[p]]
    /\ LET path == pools[p].nodeFile
       IN  IF StatFails(path)
           THEN /\ lastStat' = [lastStat EXCEPT ![p] = "staterr"]
                /\ UNCHANGED <<mtime, newgen, wpc>>
           ELSE IF ~After(fs[path].mtime, mtime[p])
           THEN /\ lastStat' = [lastStat EXCEPT ![p] = "unchanged"]
                /\ UNCHANGED <<mtime, newgen, wpc>>
           ELSE /\ lastStat' = [lastStat EXCEPT ![p] = "changed"]
                /\ mtime' = [mtime EXCEPT ![p] = fs[path].mtime]
                /\ newgen' = [newgen EXCEPT ![p] = pools[p].generation + 1]
                /\ wpc' = [wpc EXCEPT ![p] = "load"]
    /\ UNCHANGED <<workers, fs, pools, nodeFileLock, setpc, setArg, gbResult, ret,
                   parseVars, beVars, svcVars>>

\* pool.go:129-133: os.Open fails; `continue`, straight back to the stat
WorkerOpenFails(p) ==
    /\ wpc[p] = "load"
    /\ lastStat' = [lastStat EXCEPT ![p] = "openerr"]
    /\ wpc' = [wpc EXCEPT ![p] = "stat"]
    /\ UNCHANGED <<workers, statAdvanced, fs, pools, nodeFileLock, mtime, newgen, setpc, setArg,
                   gbResult, ret, parseVars, beVars, svcVars>>

\* pool.go:135-174 when a read fails after n whole lines: `break`
WorkerReadFails(p) ==
    /\ wpc[p] = "load"
    /\ LET content == fs[pools[p].nodeFile].content
       IN  \E n \in 0..(Len(content) - 1) :
              pools' = [pools EXCEPT ![p].backends =
                           ApplyLines(@, content, n, newgen[p])]
    /\ lastStat' = [lastStat EXCEPT ![p] = "readerr"]
    /\ wpc' = [wpc EXCEPT ![p] = "sleep"]
    /\ UNCHANGED <<workers, statAdvanced, fs, nodeFileLock, mtime, newgen, setpc, setArg, gbResult,
                   ret, parseVars, beVars, svcVars>>

\* pool.go:135-174 when the file is read up to io.EOF: the whole pass
WorkerLoad(p) ==
    /\ wpc[p] = "load"
    /\ LET content == fs[pools[p].nodeFile].content
       IN  pools' = [pools EXCEPT ![p].backends =
                        ApplyLines(@, content, Len(content), newgen[p])]
    /\ lastStat' = [lastStat EXCEPT ![p] = "loaded"]
    /\ wpc' = [wpc EXCEPT ![p] = "sleep"]
    /\ UNCHANGED <<workers, statAdvanced, fs, nodeFileLock, mtime, newgen, setpc, setArg, gbResult,
                   ret, parseVars, beVars, svcVars>>

\* pool.go:176: time.Sleep, then the next iteration
WorkerSleep(p) ==
    /\ wpc[p] = "sleep"
    /\ wpc' = [wpc EXCEPT ![p] = "stat"]
    /\ UNCHANGED <<workers, fs, pools, nodeFileLock, mtime, newgen, lastStat, statAdvanced, setpc,
                   setArg, gbResult, ret, parseVars, beVars, svcVars>>

\* Pool.Set("nodefile", arg) up to the lock, pool.go:209-212 and 183-191.
\* The arguments are clean paths, which path.Clean and TrimSpace keep.
SetNodeFileCall(p, arg) ==
    /\ Registered(p)
    /\ setpc[p] = "idle"
    /\ IF StatFails(arg)
       THEN /\ ret' = Err("Pool.Set", "stat")
            /\ UNCHANGED <<setpc, setArg>>
       ELSE IF IsDir(arg)
       THEN /\ ret' = Err("Pool.Set", "isdir")
            /\ UNCHANGED <<setpc, setArg>>
       ELSE /\ setpc' = [setpc EXCEPT ![p] = "lock"]
            /\ setArg' = [setArg EXCEPT ![p] = arg]
            /\ ret' = [op |-> "Pool.Set", err |-> "pending"]
    /\ UNCHANGED <<workers, fs, pools, nodeFileLock, wpc, mtime, newgen, lastStat, statAdvanced,
                   gbResult, parseVars, beVars, svcVars>>

\* pool.go:195-196: p.nodeFileLock.Lock(); p.nodeFile = nodefile
SetNodeFileLock(p) ==
    /\ setpc[p] = "lock"
    /\ nodeFileLock[p] = "free"
    /\ nodeFileLock' = [nodeFileLock EXCEPT ![p] = "setter"]
    /\ pools' = [pools EXCEPT ![p].nodeFile = setArg[p]]
    /\ setpc' = [setpc EXCEPT ![p] = "unlock"]
    /\ UNCHANGED <<workers, fs, wpc, mtime, newgen, lastStat, statAdvanced, setArg, gbResult, ret,
                   parseVars, beVars, svcVars>>

\* pool.go:197-199: Unlock and return nil
SetNodeFileUnlock(p) ==
    /\ setpc[p] = "unlock"
    /\ nodeFileLock' = [nodeFileLock EXCEPT ![p] = "free"]
    /\ setpc' = [setpc EXCEPT ![p] = "idle"]
    /\ ret' = Ok("Pool.Set")
    /\ UNCHANGED <<workers, fs, pools, wpc, mtime, newgen, lastStat, statAdvanced, setArg, gbResult,
                   parseVars, beVars, svcVars>>

\* A caller asks the pool for a backend connection (pool.go:204-206)
CallGetBackend(p) ==
    /\ Registered(p)
    /\ gbResult' = [gbResult EXCEPT ![p] = GetBackend(pools[p])]
    /\ UNCHANGED <<workers, fs, pools, nodeFileLock, wpc, mtime, newgen, lastStat, statAdvanced,
                   setpc, setArg, ret, parseVars, beVars, svcVars>>

\* The operator rewrites the node file; its modification time advances by a
\* tick unless the write falls into the tick of the previous one.
WriteFile(f) ==
    /\ \E c \in Contents, adv \in {0, 1} :
          /\ fs[f].mtime + adv <= MaxMtime
          /\ fs' = [fs EXCEPT ![f] = [mtime |-> @.mtime + adv, content |-> c]]
    /\ UNCHANGED <<workers, pools, nodeFileLock, wpc, mtime, newgen, lastStat, statAdvanced, setpc,
                   setArg, gbResult, ret, parseVars, beVars, svcVars>>

Unparsed == [done |-> FALSE, ok |-> FALSE, addr |-> <<>>]

\* No path has been resolved
Unresolved == [done |-> FALSE, err |-> "nil", path |-> <<>>]

PathIdle == root = <<>> /\ uri = <<>> /\ resolved = Unresolved

ParseIdle == line = <<>> /\ parsed = Unparsed /\ PathIdle

\* No pool has been created yet
NoPools ==
    /\ pools = [n \in {} |-> EmptyPool]
    /\ nodeFileLock = [p \in PoolNames |-> "free"]
    /\ wpc = [p \in PoolNames |-> "none"]
    /\ workers = [p \in PoolNames |-> 0]
    /\ mtime = [p \in PoolNames |-> 0]
    /\ newgen = [p \in PoolNames |-> 0]
    /\ lastStat = [p \in PoolNames |-> "none"]
    /\ statAdvanced = [p \in PoolNames |-> FALSE]
    /\ setpc = [p \in PoolNames |-> "idle"]
    /\ setArg = [p \in PoolNames |-> ""]
    /\ gbResult = [p \in PoolNames |-> "uncalled"]
    /\ ret = Ok("none")

PoolIdle ==
    /\ fs = [f \in Files |-> [mtime |-> 1, content |-> <<AddrA>>]]
    /\ NoPools

\* The node file exists with some content when the process starts
PoolInit ==
    /\ fs \in [Files -> [mtime : {1}, content : Contents]]
    /\ NoPools

PoolNext ==
    \/ \E n \in PoolNames : NewPool(n)
    \/ \E p \in PoolNames : WorkerLock(p)
    \/ \E p \in PoolNames : WorkerStat(p)
    \/ \E p \in PoolNames : WorkerOpenFails(p)
    \/ \E p \in PoolNames : WorkerReadFails(p)
    \/ \E p \in PoolNames : WorkerLoad(p)
    \/ \E p \in PoolNames : WorkerSleep(p)
    \/ \E p \in PoolNames, a \in PathArgs : SetNodeFileCall(p, a)
    \/ \E p \in PoolNames : SetNodeFileLock(p)
    \/ \E p \in PoolNames : SetNodeFileUnlock(p)
    \/ \E p \in PoolNames : CallGetBackend(p)
    \/ \E f \in Files : WriteFile(f)

\* The pools, their workers and the control interface's calls on them
InitPool == PoolInit /\ ParseIdle /\ BackendIdle /\ NoServices

SpecPool == InitPool /\ [][PoolNext]_vars


\* The Go scheduler runs every goroutine that can take a step: the worker,
\* and a Set call that can get the lock
FairSpecPool ==
    /\ SpecPool
    /\ \A p \in PoolNames :
          /\ WF_vars(WorkerLock(p))
          /\ WF_vars(WorkerStat(p))
          /\ WF_vars(WorkerOpenFails(p) \/ WorkerReadFails(p) \/ WorkerLoad(p))
          /\ WF_vars(WorkerSleep(p))
          /\ WF_vars(SetNodeFileLock(p))
          /\ WF_vars(SetNodeFileUnlock(p))

-----------------------------------------------------------------------------
(* Node-file line parsing on its own: every line up to MaxLineLen.         *)

ParseInit ==
    /\ line \in Lines
    /\ parsed = Unparsed
    /\ PathIdle
    /\ PoolIdle
    /\ BackendIdle
    /\ NoServices

\* pool.go:151-158 applied to the line read
Parse ==
    /\ ~parsed.done
    /\ parsed' = [done |-> TRUE, ok |-> ParseLine(line).ok,
                  addr |-> ParseLine(line).addr]
    /\ UNCHANGED <<line, root, uri, resolved, poolVars, beVars, svcVars>>

SpecParse == ParseInit /\ [][Parse]_vars

-----------------------------------------------------------------------------
(* Backend.Connect (pool.go:57-71) on one Backend, called concurrently.    *)

NumCallers == 3
MaxDials == 6
Callers == 1..NumCallers
\* The mutex is held by a caller (its number), by a goroutine of
\* pool.go:65 (DialHolder), or by nobody (0)
DialHolder == NumCallers + 1

DialsStarted == dialsWaiting + dialsDone + (IF connectMutex = DialHolder THEN 1 ELSE 0)

\* The connection attempts that were started and have not ended
DialsInFlight == DialsStarted - dialsDone

\* pool.go:58: self.connectMutex.Lock()
ConnectLock(i) ==
    /\ cpc[i] = "idle"
    /\ connectMutex = 0
    /\ DialsStarted < MaxDials
    /\ connectMutex' = i
    /\ cpc' = [cpc EXCEPT ![i] = "locked"]
    /\ UNCHANGED <<connecting, dialsWaiting, dialsDone, backendQueue, backendUp,
                   parseVars, poolVars, svcVars>>

\* pool.go:59-71: return if a connection is in progress, else start the
\* goroutine; the deferred Unlock runs on both ways out
ConnectBody(i) ==
    /\ cpc[i] = "locked"
    /\ IF connecting # NilConn
       THEN UNCHANGED dialsWaiting
       ELSE dialsWaiting' = dialsWaiting + 1
    /\ connectMutex' = 0
    /\ cpc' = [cpc EXCEPT ![i] = "idle"]
    /\ UNCHANGED <<connecting, dialsDone, backendQueue, backendUp, parseVars,
                   poolVars, svcVars>>

\* pool.go:66: the goroutine takes the mutex
DialLock ==
    /\ dialsWaiting > 0
    /\ connectMutex = 0
    /\ connectMutex' = DialHolder
    /\ dialsWaiting' = dialsWaiting - 1
    /\ UNCHANGED <<connecting, cpc, dialsDone, backendQueue, backendUp, parseVars,
                   poolVars, svcVars>>

\* pool.go:67-70: the assignment to self.connecting is commented out; the
\* goroutine unlocks and ends, having made no connection and put nothing
\* on the pool's backendQueue
DialUnlock ==
    /\ connectMutex = DialHolder
    /\ connectMutex' = 0
    /\ dialsDone' = dialsDone + 1
    /\ UNCHANGED <<connecting, cpc, dialsWaiting, backendQueue, backendUp,
                   parseVars, poolVars, svcVars>>

\* pool.go:169-172: a Backend as the reconciliation creates it
BackendInit ==
    /\ connectMutex = 0
    /\ connecting = NilConn
    /\ cpc = [i \in Callers |-> "idle"]
    /\ dialsWaiting = 0
    /\ dialsDone = 0
    /\ backendQueue = 0
    /\ backendUp \in BOOLEAN

BackendNext ==
    \/ \E i \in Callers : ConnectLock(i)
    \/ \E i \in Callers : ConnectBody(i)
    \/ DialLock
    \/ DialUnlock

InitBackend == BackendInit /\ ParseIdle /\ PoolIdle /\ NoServices

SpecBackend == InitBackend /\ [][BackendNext]_vars

\* C3: however many Connect calls are made while a connection attempt has
\* not completed, one attempt is in flight: a Connect call made meanwhile
\* starts none.
C3_SingleFlight == DialsInFlight <= 1

-----------------------------------------------------------------------------
(* Claims about the pool.                                                  *)

Addresses(backends) == {backends[i].Ipport : i \in 1..Len(backends)}

\* The addresses a file's lines name, as the pass parses them
FileAddresses(content) ==
    {ParseLine(ReadString(content, i)).addr :
        i \in {j \in 1..Len(content) : ParseLine(ReadString(content, j)).ok}}

\* The worker has just completed a pass that read the file to its end
PassCompleted(p) == Registered(p) /\ wpc[p] = "sleep" /\ lastStat[p] = "loaded"

\* C4: Pool.GetBackend never returns a nil connection: every call returns a
\* usable backend connection or an explicit no-backend-available failure.
C4_GetBackendNeverNil == \A p \in PoolNames : gbResult[p] # NilConn

\* C5: after every completed reconciliation pass every Backend of the pool
\* has the pool's current generation, and none is older than the generation
\* of the pass before.
C5_GenerationsCurrentAfterPass ==
    \A p \in PoolNames :
        PassCompleted(p) =>
            \A i \in 1..Len(pools[p].backends) :
                /\ pools[p].backends[i].generation = pools[p].generation
                /\ pools[p].backends[i].generation >= pools[p].generation - 1

\* C6: a completed reconciliation pass leaves the backend list holding
\* exactly the addresses of the file it read, and a Backend whose address is
\* still listed is the one that was there before.
C6_BackendsMatchFile ==
    [][\A p \in PoolNames :
          (Registered(p) /\ wpc[p] = "load" /\ wpc'[p] = "sleep"
             /\ lastStat'[p] = "loaded")
          => /\ Addresses(pools'[p].backends)
                  = FileAddresses(fs[pools[p].nodeFile].content)
             /\ \A i \in 1..Len(pools[p].backends) :
                   pools[p].backends[i].Ipport
                       \in FileAddresses(fs[pools[p].nodeFile].content)
                   => \E j \in 1..Len(pools'[p].backends) :
                         pools'[p].backends[j].Ipport
                             = pools[p].backends[i].Ipport]_vars

\* The iteration the worker is in found (or is about to find) the node
\* file's modification time not advanced
IterationUnchanged(p) ==
    /\ Registered(p)
    /\ \/ /\ wpc[p] = "stat"
          /\ pools[p].nodeFile \in Files
          /\ fs[pools[p].nodeFile].mtime <= mtime[p]
       \/ /\ wpc[p] = "load"
          /\ ~statAdvanced[p]

\* C7: an iteration that finds the modification time not advanced changes
\* neither the backend list, nor a Backend's generation, nor the pool's
\* generation counter.
C7_UnchangedFileNoEffect ==
    [][\A p \in PoolNames :
          IterationUnchanged(p) =>
              /\ pools'[p].backends = pools[p].backends
              /\ pools'[p].generation = pools[p].generation]_vars

\* The worker has found the file unchanged although its text differs from
\* what the pool loaded: it was rewritten within one tick
C7_Witness ==
    \E p \in PoolNames :
        /\ Registered(p)
        /\ lastStat[p] = "unchanged"
        /\ pools[p].backends # <<>>
        /\ Addresses(pools[p].backends)
               # FileAddresses(fs[pools[p].nodeFile].content)

\* C8: Pool.Set("nodefile", path) with the path of an existing file returns
\* ok with the path installed, also while the worker runs: a call waiting
\* for the node-file lock gets it.
C8_SetNodeFileReturns ==
    \A p \in PoolNames :
        (setpc[p] = "lock")
            ~> (Registered(p) /\ setpc[p] = "idle" /\ pools[p].nodeFile = setArg[p])

-----------------------------------------------------------------------------
(* Claims about line parsing.                                              *)

\* The text before the first '#'
BeforeComment(s) == IF Index(s, "#") > -1 THEN SubSeq(s, 1, Index(s, "#")) ELSE s

HasNoSurroundingSpace(s) == s = <<>> \/ (~IsSpace(s[1]) /\ ~IsSpace(s[Len(s)]))

\* C9: the parsed address is the line without the part from the first '#'
\* and without surrounding white space; a line whose address is blank or
\* shorter than the minimum yields no Backend.
C9_ParsedAddressTrimmed ==
    parsed.done =>
        LET want == TrimSpace(BeforeComment(line))
        IN  /\ parsed.ok => (parsed.addr = want /\ HasNoSurroundingSpace(parsed.addr))
            /\ parsed.ok <=> Len(want) >= MinAddrLen

-----------------------------------------------------------------------------
(* Services (service.go), listeners (listener.go) and the connections'    *)
(* pumps (http.go, conn.go).                                               *)

MaxListeners == 2
MaxReqs == 2

\* ServiceListener.Listener when no TcpListener is bound (service.go:212)
NilListener == 0

\* A channel that was never made: Service.requestQueue keeps the zero value
\* NewService leaves it with (service.go:92-97)
NilChan == [made |-> FALSE, buf |-> <<>>]

\* make(chan *http.Response, 1), http.go:115
NewRchan == [made |-> TRUE, buf |-> <<>>]

RoleValues == {"web_server", "management", "reverse_proxy", "bogus"}
ListenAddrs == {"a:80", "b:81"}
\* The comma-separated pieces of a `listen` value
ListenValues == {<<"a:80">>, <<"a:80", "b:81">>}
PoolArgs == PoolNames \cup {"nopool"}

Range(f) == {f[x] : x \in DOMAIN f}

\* The check of service.go:88 left out
ServiceExistsNever(name) == FALSE

\* service.go:88: the name is taken
ServiceExists(name) == name \in DOMAIN services

\* service.go:92-97
NewServiceObject(oid) ==
    [oid |-> oid, Enabled |-> FALSE, Role |-> "WEBSERVER",
     Listeners |-> [a \in {} |-> NilListener], DocRoot |-> "", Pool |-> "",
     requestQueue |-> NilChan]

\* service.go:85: serviceLock.Lock()
NewServiceLock(k, name) ==
    /\ ~crashed
    /\ nspc[k] = "idle"
    /\ serviceLock = 0
    /\ serviceLock' = k
    /\ nspc' = [nspc EXCEPT ![k] = "locked"]
    /\ nsArg' = [nsArg EXCEPT ![k] = name]
    /\ UNCHANGED <<nsRet, services, created, rpc, tcpListeners, conn, crashed,
                   parseVars, poolVars, beVars>>

\* service.go:88-90: a taken name is an error; the deferred Unlock runs
NewServiceCheck(k) ==
    /\ ~crashed
    /\ nspc[k] = "locked"
    /\ IF ServiceExists(nsArg[k])
       THEN /\ nsRet' = [nsRet EXCEPT ![k] = "exists"]
            /\ nspc' = [nspc EXCEPT ![k] = "idle"]
            /\ serviceLock' = 0
       ELSE /\ nspc' = [nspc EXCEPT ![k] = "insert"]
            /\ UNCHANGED <<nsRet, serviceLock>>
    /\ UNCHANGED <<nsArg, services, created, rpc, tcpListeners, conn, crashed,
                   parseVars, poolVars, beVars>>

\* service.go:92-101: register the new Service, start its requestPump,
\* return it; the deferred Unlock runs
NewServiceInsert(k) ==
    /\ ~crashed
    /\ nspc[k] = "insert"
    /\ LET name == nsArg[k]
       IN  /\ services' = [n \in DOMAIN services \cup {name} |->
                              IF n = name THEN NewServiceObject(created[name] + 1)
                              ELSE services[n]]
           /\ created' = [created EXCEPT ![name] = @ + 1]
           /\ rpc' = [rpc EXCEPT ![name] = "spawned"]
    /\ nsRet' = [nsRet EXCEPT ![k] = "nil"]
    /\ nspc' = [nspc EXCEPT ![k] = "idle"]
    /\ serviceLock' = 0
    /\ UNCHANGED <<nsArg, tcpListeners, conn, crashed, parseVars, poolVars,
                   beVars>>

\* service.go:244-253: the role a value names, "" for an invalid one
RoleOf(value) ==
    CASE value = "web_server" -> "WEBSERVER"
      [] value = "management" -> "MANAGE"
      [] value = "reverse_proxy" -> "PROXY"
      [] OTHER -> ""

svcFrame == <<serviceLock, nspc, nsArg, nsRet, created, rpc>>

\* Service.Set("role", value), service.go:243-253
SetRole(n, value) ==
    /\ ~crashed
    /\ ServiceExists(n)
    /\ IF RoleOf(value) = ""
       THEN /\ ret' = Err("Service.Set", "invalid role")
            /\ UNCHANGED services
       ELSE /\ services' = [services EXCEPT ![n].Role = RoleOf(value)]
            /\ ret' = Ok("Service.Set")
    /\ UNCHANGED <<workers, svcFrame, tcpListeners, conn, crashed, parseVars, beVars, fs,
                   pools, nodeFileLock, wpc, mtime, newgen, lastStat,
                   statAdvanced, setpc, setArg, gbResult>>

\* The docroot assigned before it is checked
SetDocRootFirst(n, value) ==
    /\ ~crashed
    /\ ServiceExists(n)
    /\ services' = [services EXCEPT ![n].DocRoot = value]
    /\ ret' = IF StatFails(value) THEN Err("Service.Set", "stat")
              ELSE IF ~IsDir(value) THEN Err("Service.Set", "not a directory")
              ELSE Ok("Service.Set")
    /\ UNCHANGED <<workers, svcFrame, tcpListeners, conn, crashed, parseVars, beVars, fs,
                   pools, nodeFileLock, wpc, mtime, newgen, lastStat,
                   statAdvanced, setpc, setArg, gbResult>>

\* Service.Set("docroot", value), service.go:254-264; the values are clean
\* paths, which path.Clean and TrimSpace keep
SetDocRoot(n, value) ==
    /\ ~crashed
    /\ ServiceExists(n)
    /\ IF StatFails(value)
       THEN /\ ret' = Err("Service.Set", "stat")
            /\ UNCHANGED services
       ELSE IF ~IsDir(value)
       THEN /\ ret' = Err("Service.Set", "not a directory")
            /\ UNCHANGED services
       ELSE /\ services' = [services EXCEPT ![n].DocRoot = value]
            /\ ret' = Ok("Service.Set")
    /\ UNCHANGED <<workers, svcFrame, tcpListeners, conn, crashed, parseVars, beVars, fs,
                   pools, nodeFileLock, wpc, mtime, newgen, lastStat,
                   statAdvanced, setpc, setArg, gbResult>>

\* Service.Set("pool", value), service.go:265-270
SetPool(n, value) ==
    /\ ~crashed
    /\ ServiceExists(n)
    /\ IF value \notin DOMAIN pools
       THEN /\ ret' = Err("Service.Set", "pool not found")
            /\ UNCHANGED services
       ELSE /\ services' = [services EXCEPT ![n].Pool = value]
            /\ ret' = Ok("Service.Set")
    /\ UNCHANGED <<workers, svcFrame, tcpListeners, conn, crashed, parseVars, beVars, fs,
                   pools, nodeFileLock, wpc, mtime, newgen, lastStat,
                   statAdvanced, setpc, setArg, gbResult>>

\* net.ListenTCP fails: the address is bound by an open listening socket
BindFails(T, addr) ==
    \E l \in 1..Len(T) : T[l].ipport = addr /\ T[l].socket = "open"

\* listener.go:45-51: the TcpListener ListenTcp makes, its acceptLoop started
NewTcpListener(addr, n) ==
    [ipport |-> addr, svc |-> n, alive |-> TRUE, socket |-> "open",
     loop |-> "accept"]

\* One address of `todo` bound anew, whether it has a listener or not
BindAllAgain(L, T, n, todo) ==
    IF todo = {} THEN [L |-> L, T |-> T]
    ELSE LET a == CHOOSE x \in todo : TRUE
         IN  [L |-> [L EXCEPT ![a] = Len(T) + 1],
              T |-> Append(T, NewTcpListener(a, n))]

\* service.go:175-188: bind every address of `todo` that has no listener;
\* a failed ListenTcp is logged and skipped
RECURSIVE BindAll(_, _, _, _)
BindAll(L, T, n, todo) ==
    IF todo = {} THEN [L |-> L, T |-> T]
    ELSE LET a == CHOOSE x \in todo : TRUE
         IN  IF L[a] # NilListener \/ BindFails(T, a)
             THEN BindAll(L, T, n, todo \ {a})
             ELSE BindAll([L EXCEPT ![a] = Len(T) + 1],
                          Append(T, NewTcpListener(a, n)), n, todo \ {a})

Unbound(L) == {a \in DOMAIN L : L[a] = NilListener}

\* Service.Enable, service.go:174-191
Enable(n) ==
    /\ ~crashed
    /\ ServiceExists(n)
    /\ Len(tcpListeners) + Cardinality(Unbound(services[n].Listeners)) <= MaxListeners
    /\ LET b == BindAll(services[n].Listeners, tcpListeners, n,
                        DOMAIN services[n].Listeners)
       IN  /\ services' = [services EXCEPT ![n].Listeners = b.L,
                                           ![n].Enabled = TRUE]
           /\ tcpListeners' = b.T
    /\ ret' = Ok("Service.Enable")
    /\ UNCHANGED <<workers, svcFrame, conn, crashed, parseVars, beVars, fs, pools,
                   nodeFileLock, wpc, mtime, newgen, lastStat, statAdvanced,
                   setpc, setArg, gbResult>>

\* TcpListener.Close (listener.go:76-81) on each listener of `ids`
CloseListeners(T, ids) ==
    [l \in 1..Len(T) |->
        IF l \in ids THEN [T[l] EXCEPT !.alive = FALSE, !.socket = "closed"]
        ELSE T[l]]

\* Service.Set("listen", value), service.go:194-221.  Close is called on
\* every entry's Listener; on an entry that is not bound the receiver is a
\* nil *TcpListener, and TcpListener.Close dereferences it (listener.go:77):
\* the process panics.
SetListen(n, value) ==
    /\ ~crashed
    /\ ServiceExists(n)
    /\ LET L == services[n].Listeners
           L1 == [a \in Range(value) |-> NilListener]
           T1 == CloseListeners(tcpListeners, Range(L))
       IN  IF Unbound(L) # {}
           THEN /\ crashed' = TRUE
                /\ UNCHANGED <<services, tcpListeners, ret>>
           ELSE /\ Len(tcpListeners) + Cardinality(Range(value)) <= MaxListeners
                /\ IF services[n].Enabled
                   THEN LET b == BindAll(L1, T1, n, DOMAIN L1)
                        IN  /\ services' = [services EXCEPT ![n].Listeners = b.L]
                            /\ tcpListeners' = b.T
                   ELSE /\ services' = [services EXCEPT ![n].Listeners = L1]
                        /\ tcpListeners' = T1
                /\ ret' = Ok("Service.Set")
                /\ UNCHANGED crashed
    /\ UNCHANGED <<workers, svcFrame, conn, parseVars, beVars, fs, pools, nodeFileLock,
                   wpc, mtime, newgen, lastStat, statAdvanced, setpc, setArg,
                   gbResult>>

\* HttpAcceptor (http.go:87-96): the connection and its pump goroutine
NewHttpConn(n) ==
    [NoConn EXCEPT !.kind = "http", !.svc = n, !.sock = "open", !.pc = "read"]

\* TcpAcceptor (conn.go:31-39, 54-63)
NewTcpConn(n) ==
    [NoConn EXCEPT !.kind = "tcp", !.svc = n, !.sock = "open", !.pc = "read",
                   !.alive = TRUE]

\* Service.Accept (service.go:225-235): the acceptor of the role
Accept(n) ==
    IF services[n].Role = "MANAGE" THEN NewTcpConn(n) ELSE NewHttpConn(n)

\* TcpListener.acceptLoop (listener.go:57-73): AcceptTCP fails once the
\* socket is closed and the loop returns; else a client is accepted and
\* handed to the service's Accept, which returns no error
AcceptLoop(l) ==
    /\ ~crashed
    /\ l \in 1..Len(tcpListeners)
    /\ tcpListeners[l].loop = "accept"
    /\ IF tcpListeners[l].socket = "closed"
       THEN /\ tcpListeners' = [tcpListeners EXCEPT ![l].loop = "ended"]
            /\ UNCHANGED conn
       ELSE /\ \E c \in ConnIds :
                  /\ conn[c].kind = "none"
                  /\ conn' = [conn EXCEPT ![c] = Accept(tcpListeners[l].svc)]
            /\ UNCHANGED tcpListeners
    /\ UNCHANGED <<svcFrame, services, crashed, parseVars, poolVars, beVars>>

\* The client writes one more request (or line) to its socket
ClientSend(c) ==
    /\ ~crashed
    /\ conn[c].sock = "open"
    /\ ~conn[c].peerClosed
    /\ conn[c].sent < MaxReqs
    /\ conn' = [conn EXCEPT ![c].sent = @ + 1]
    /\ UNCHANGED <<svcFrame, services, tcpListeners, crashed, parseVars,
                   poolVars, beVars>>

\* The client closes its end
ClientClose(c) ==
    /\ ~crashed
    /\ conn[c].sock = "open"
    /\ ~conn[c].peerClosed
    /\ conn' = [conn EXCEPT ![c].peerClosed = TRUE]
    /\ UNCHANGED <<svcFrame, services, tcpListeners, crashed, parseVars,
                   poolVars, beVars>>

\* The pump ended and the socket left open
HttpCloseNot(h) == [h EXCEPT !.pc = "closed"]

\* HttpConnection.WriteResponse (http.go:149-154) when r.Write returns no
\* error: the response is written to BWriter, a bufio.Writer, and there is
\* no Flush.  What is buffered reaches the socket only when the buffer
\* fills up; `fills` is whether this response fills it exactly, so that
\* bufio writes all of it out.
WriteResponse(h, fills) ==
    IF fills
    THEN [h EXCEPT !.delivered = @ + h.buffered + 1, !.buffered = 0]
    ELSE [h EXCEPT !.buffered = @ + 1]

\* HttpConnection.Close (http.go:158-160), deferred by pump: the socket is
\* closed; what BWriter holds is dropped with it
HttpClose(h) ==
    [h EXCEPT !.sock = "closed", !.closes = @ + 1, !.pc = "closed"]

\* A response to request number k
Response(k, status) == [for |-> k, status |-> status]

\* Service.HandleRequest (service.go:281-296): the send on requestQueue.  A
\* send on a nil channel blocks for ever.
CanEnqueue(q) == q.made

\* HttpConnection.pump (http.go:100-136), one step of it
HttpPump(c) ==
    /\ ~crashed
    /\ conn[c].kind = "http"
    /\ LET h == conn[c]
           q == services[h.svc].requestQueue
       IN  IF h.pc = "read"
           THEN \* http.go:104-115: ReadRequest, then make the channel
                /\ \/ /\ h.nread < h.sent
                      /\ \E wellFormed \in BOOLEAN :
                            conn' = [conn EXCEPT ![c] =
                                IF wellFormed
                                THEN [h EXCEPT !.nread = @ + 1, !.rchan = NewRchan,
                                               !.pc = "send"]
                                ELSE HttpClose(h)]
                   \/ /\ h.nread = h.sent
                      /\ h.peerClosed
                      /\ conn' = [conn EXCEPT ![c] = HttpClose(h)]
                /\ UNCHANGED services
           ELSE IF h.pc = "send"
           THEN \* http.go:117 and service.go:290-295
                /\ CanEnqueue(q)
                /\ services' = [services EXCEPT ![h.svc].requestQueue.buf =
                                   Append(@, [client |-> c, request |-> h.nread])]
                /\ conn' = [conn EXCEPT ![c].pc = "wait"]
           ELSE IF h.pc = "wait"
           THEN \* http.go:122: resp := <-rchan
                /\ h.rchan.buf # <<>>
                /\ conn' = [conn EXCEPT ![c].rchan.buf = Tail(@),
                                         ![c].ngot = @ + 1, ![c].pc = "write"]
                /\ UNCHANGED services
           ELSE \* http.go:127-132: WriteResponse, then the next request
                /\ h.pc = "write"
                /\ \E written, fills \in BOOLEAN :
                      conn' = [conn EXCEPT ![c] =
                          IF written
                          THEN [WriteResponse(h, fills) EXCEPT
                                    !.nresp = @ + 1, !.pc = "read"]
                          ELSE HttpClose(h)]
                /\ UNCHANGED services
    /\ UNCHANGED <<svcFrame, tcpListeners, crashed, parseVars, poolVars, beVars>>

\* net.Conn.Close: the error it returns
SockClose(sock) == IF sock = "open" THEN "nil" ELSE "use of closed connection"

\* Close without the check of `alive`
TcpCloseAgain(t, flushOk) ==
    [t EXCEPT !.calls = @ + 1, !.alive = FALSE, !.flushes = @ + 1,
              !.flushErr = @ \/ ~flushOk, !.sock = "closed", !.closes = @ + 1,
              !.closeRet = SockClose(t.sock)]

\* TcpConnection.Close (conn.go:82-93); flushOk is whether BWriter.Flush
\* succeeds.  `calls` counts the calls, `closes` the closes of the socket.
TcpClose(t, flushOk) ==
    IF ~t.alive
    THEN [t EXCEPT !.calls = @ + 1, !.closeRet = "already closed"]
    ELSE [t EXCEPT !.calls = @ + 1, !.alive = FALSE, !.flushes = @ + 1,
                   !.flushErr = @ \/ ~flushOk, !.sock = "closed",
                   !.closes = @ + 1, !.closeRet = SockClose(t.sock)]

\* TcpConnection.pump (conn.go:67-79): read lines until ReadLine fails (the
\* peer has closed, or the socket was closed under it), then the deferred
\* Close
TcpPump(c) ==
    /\ ~crashed
    /\ conn[c].kind = "tcp"
    /\ conn[c].pc = "read"
    /\ \/ /\ conn[c].sock = "open"
          /\ conn[c].nread < conn[c].sent
          /\ conn' = [conn EXCEPT ![c].nread = @ + 1]
       \/ /\ \/ conn[c].sock = "closed"
             \/ conn[c].nread = conn[c].sent /\ conn[c].peerClosed
          /\ \E flushOk \in BOOLEAN :
                conn' = [conn EXCEPT ![c] =
                            [TcpClose(conn[c], flushOk) EXCEPT !.pc = "closed"]]
    /\ UNCHANGED <<svcFrame, services, tcpListeners, crashed, parseVars,
                   poolVars, beVars>>

\* Service.serveFile (service.go:106-139): one response on the request's
\* channel, 200 with the file or 500 with the failure
ServeFileStatuses == {200, 500}

\* Service.requestPump (service.go:149-170), one step of it.  The receive
\* from a nil channel blocks for ever.  serveFile runs as a goroutine of its
\* own that only sends on the request's channel; its send is taken together
\* with the step that starts it.
requestPump(n) ==
    /\ ~crashed
    /\ ServiceExists(n)
    /\ IF rpc[n] = "spawned"
       THEN \* the goroutine of service.go:99 runs up to the receive
            /\ rpc' = [rpc EXCEPT ![n] = "recv"]
            /\ UNCHANGED <<services, conn>>
       ELSE /\ rpc[n] = "recv"
            /\ services[n].requestQueue.made
            /\ services[n].requestQueue.buf # <<>>
            /\ LET req == Head(services[n].requestQueue.buf)
               IN  /\ services' = [services EXCEPT ![n].requestQueue.buf = Tail(@)]
                   /\ IF services[n].Role = "WEBSERVER"
                      THEN /\ \E st \in ServeFileStatuses :
                                 conn' = [conn EXCEPT ![req.client].rchan.buf =
                                             Append(@, Response(req.request, st))]
                           /\ rpc' = [rpc EXCEPT ![n] = "returned"]
                      ELSE IF services[n].Role # "PROXY"
                      THEN /\ conn' = [conn EXCEPT ![req.client].rchan.buf =
                                          Append(@, Response(req.request, 500))]
                           /\ rpc' = [rpc EXCEPT ![n] = "returned"]
                      ELSE \* be := s.Pool.GetBackend(), and nothing else
                           /\ UNCHANGED <<conn, rpc>>
    /\ UNCHANGED <<serviceLock, nspc, nsArg, nsRet, created, tcpListeners,
                   crashed, parseVars, poolVars, beVars>>

InitService == NoServices /\ ParseIdle /\ PoolIdle /\ BackendIdle

\* The registries and the configuration of services: NewService called
\* concurrently, and the Set and Enable calls that change a Service's fields
RegistryNext ==
    \/ \E k \in Creators, n \in ServiceNames : NewServiceLock(k, n)
    \/ \E k \in Creators : NewServiceCheck(k)
    \/ \E k \in Creators : NewServiceInsert(k)
    \/ \E n \in ServiceNames, v \in RoleValues : SetRole(n, v)
    \/ \E n \in ServiceNames, v \in PathArgs : SetDocRoot(n, v)
    \/ \E n \in ServiceNames, v \in PoolArgs : SetPool(n, v)
    \/ \E n \in ServiceNames : Enable(n)
    \/ \E n \in PoolNames : NewPool(n)

SpecRegistry == InitService /\ [][RegistryNext]_vars

\* A service from its creation by the configuration loader (one caller) to
\* the requests of its clients
ServiceNext ==
    \/ \E n \in ServiceNames : NewServiceLock(1, n)
    \/ NewServiceCheck(1)
    \/ NewServiceInsert(1)
    \/ \E n \in ServiceNames, v \in RoleValues : SetRole(n, v)
    \/ \E n \in ServiceNames, v \in ListenValues : SetListen(n, v)
    \/ \E n \in ServiceNames : Enable(n)
    \/ \E l \in 1..MaxListeners : AcceptLoop(l)
    \/ \E c \in ConnIds : ClientSend(c)
    \/ \E c \in ConnIds : ClientClose(c)
    \/ \E c \in ConnIds : HttpPump(c)
    \/ \E c \in ConnIds : TcpPump(c)
    \/ \E n \in ServiceNames : requestPump(n)


SpecService == InitService /\ [][ServiceNext]_vars

\* The Go scheduler runs every goroutine that can take a step
FairSpecService ==
    /\ SpecService
    /\ \A c \in ConnIds : WF_vars(HttpPump(c)) /\ WF_vars(TcpPump(c))
    /\ \A n \in ServiceNames : WF_vars(requestPump(n))
    /\ \A l \in 1..MaxListeners : WF_vars(AcceptLoop(l))

-----------------------------------------------------------------------------
(* Claims about services and their requests.                               *)

\* Request number k of connection c has been handed to HandleRequest, on a
\* service in web-server or reverse-proxy role, and no error has come back
HandedOver(c, k) ==
    /\ conn[c].kind = "http"
    /\ conn[c].pc = "send"
    /\ conn[c].nread = k
    /\ services[conn[c].svc].Role \in {"WEBSERVER", "PROXY"}

\* C1: every request HandleRequest takes without returning an error gets its
\* response on the request's channel: the pump that waits for it receives
\* it.
C1_AcceptedRequestAnswered ==
    \A c \in ConnIds : \A k \in 1..MaxReqs :
        HandedOver(c, k) ~> (conn[c].ngot >= k)

\* C2: a client connection that sends its requests one after the other gets
\* as many responses as it sent requests (unless the connection ends on a
\* read or write error), whatever other connections do.
C2_EveryRequestOfAConnectionAnswered ==
    \A c \in ConnIds :
        (conn[c].kind = "http" /\ conn[c].sent = MaxReqs /\ ~conn[c].peerClosed)
            ~> (conn[c].nresp = MaxReqs \/ conn[c].peerClosed
                    \/ conn[c].sock = "closed")

\* C10: at most one NewService call per name succeeds; a call for a
\* registered name returns the duplicate-name error, starts no dispatch
\* goroutine and leaves the registered Service as it is, the same object
\* with the same fields.
C10_DuplicateNewServiceRejected ==
    [][/\ \A n \in ServiceNames : created'[n] <= 1
       /\ \A n \in DOMAIN services :
             /\ n \in DOMAIN services'
             /\ services'[n].oid = services[n].oid
       /\ \A k \in Creators :
             (nspc[k] = "locked" /\ nsArg[k] \in DOMAIN services
                 /\ nspc'[k] # "locked")
             => /\ nsRet'[k] = "exists"
                /\ nspc'[k] = "idle"
                /\ services' = services
                /\ created' = created
                /\ rpc' = rpc]_vars

\* A NewService call has failed on a registered, configured service
C10_Witness ==
    \E k \in Creators, n \in ServiceNames :
        /\ nsRet[k] = "exists"
        /\ nsArg[k] = n
        /\ n \in DOMAIN services
        /\ services[n].Role = "PROXY"
        /\ services[n].Enabled
        /\ services[n].DocRoot # ""
        /\ \E j \in Creators : j # k /\ nsRet[j] = "nil"

-----------------------------------------------------------------------------
(* The control interface: the configuration loader creates the pool and   *)
(* the service and configures them with Set and Enable calls.             *)

ConfigNext ==
    \/ \E n \in ServiceNames : NewServiceLock(1, n)
    \/ NewServiceCheck(1)
    \/ NewServiceInsert(1)
    \/ \E n \in PoolNames : NewPool(n)
    \/ \E n \in ServiceNames, v \in RoleValues : SetRole(n, v)
    \/ \E n \in ServiceNames, v \in PathArgs : SetDocRoot(n, v)
    \/ \E n \in ServiceNames, v \in PoolArgs : SetPool(n, v)
    \/ \E n \in ServiceNames, v \in ListenValues : SetListen(n, v)
    \/ \E n \in ServiceNames : Enable(n)
    \/ \E p \in PoolNames, a \in PathArgs : SetNodeFileCall(p, a)
    \/ \E p \in PoolNames : SetNodeFileLock(p)
    \/ \E p \in PoolNames : SetNodeFileUnlock(p)

SpecConfig == InitService /\ [][ConfigNext]_vars

\* C11: NewPool(name) returns the duplicate-name error exactly when a pool
\* of that name is registered, and then leaves the pools as they are and
\* starts no worker; at most one worker is ever started per name.  Whether
\* NewPool or NewService succeeds depends on its own registry only.
C11_DuplicateNewPoolRejected ==
    [][/\ \A n \in PoolNames :
             /\ workers'[n] <= 1
             /\ NewPool(n) =>
                   /\ services' = services
                   /\ IF n \in DOMAIN pools
                      THEN /\ ret' = Err("NewPool", "exists")
                           /\ pools' = pools
                           /\ wpc' = wpc
                           /\ workers' = workers
                      ELSE /\ ret' = Ok("NewPool")
                           /\ n \in DOMAIN pools'
                           /\ workers'[n] = 1
       /\ \A k \in Creators :
             (nspc[k] = "locked" /\ nspc'[k] # "locked")
             => /\ pools' = pools
                /\ nspc'[k] = "insert" <=> nsArg[k] \notin DOMAIN services]_vars

\* NewPool has failed on a registered pool whose node file had been set,
\* while a service of the same name is registered
C11_Witness ==
    \E n \in PoolNames \cap ServiceNames :
        /\ ret = Err("NewPool", "exists")
        /\ n \in DOMAIN pools
        /\ pools[n].nodeFile = "nodes"
        /\ workers[n] = 1
        /\ n \in DOMAIN services

-----------------------------------------------------------------------------
(* TcpConnection.Close (conn.go:82-93) called any number of times, by the *)
(* connection's pump and by other holders of the connection.              *)

MaxCloses == 3

\* A call of Close on the connection from outside its pump
CallClose(c) ==
    /\ ~crashed
    /\ conn[c].kind = "tcp"
    /\ conn[c].calls < MaxCloses
    /\ \E flushOk \in BOOLEAN :
          conn' = [conn EXCEPT ![c] = TcpClose(conn[c], flushOk)]
    /\ UNCHANGED <<svcFrame, services, tcpListeners, crashed, parseVars,
                   poolVars, beVars>>

\* A management service that is enabled, listens on one address and has
\* accepted its first client
InitConn ==
    /\ ParseIdle
    /\ BackendIdle
    /\ fs = [f \in Files |-> [mtime |-> 1, content |-> <<AddrA>>]]
    /\ pools = [n \in {} |-> EmptyPool]
    /\ nodeFileLock = [p \in PoolNames |-> "free"]
    /\ wpc = [p \in PoolNames |-> "none"]
    /\ workers = [p \in PoolNames |-> 0]
    /\ mtime = [p \in PoolNames |-> 0]
    /\ newgen = [p \in PoolNames |-> 0]
    /\ lastStat = [p \in PoolNames |-> "none"]
    /\ statAdvanced = [p \in PoolNames |-> FALSE]
    /\ setpc = [p \in PoolNames |-> "idle"]
    /\ setArg = [p \in PoolNames |-> ""]
    /\ gbResult = [p \in PoolNames |-> "uncalled"]
    /\ ret = Ok("Service.Enable")
    /\ serviceLock = 0
    /\ nspc = [k \in Creators |-> "idle"]
    /\ nsArg = [k \in Creators |-> IF k = 1 THEN "web" ELSE ""]
    /\ nsRet = [k \in Creators |-> IF k = 1 THEN "nil" ELSE "none"]
    /\ services = [n \in ServiceNames |->
                      [NewServiceObject(1) EXCEPT
                          !.Role = "MANAGE", !.Enabled = TRUE,
                          !.Listeners = [a \in {"a:80"} |-> 1]]]
    /\ created = [n \in ServiceNames |-> 1]
    /\ rpc = [n \in ServiceNames |-> "spawned"]
    /\ tcpListeners = <<NewTcpListener("a:80", "web")>>
    /\ conn = [c \in ConnIds |-> IF c = 1 THEN NewTcpConn("web") ELSE NoConn]
    /\ crashed = FALSE

ConnNext ==
    \/ ClientSend(1)
    \/ ClientClose(1)
    \/ TcpPump(1)
    \/ CallClose(1)

SpecConn == InitConn /\ [][ConnNext]_vars

\* C12: the first Close flushes once, closes the socket (also when the
\* flush fails) and marks the connection dead; every later Close returns the
\* already-closed error and neither flushes nor closes: the socket is
\* closed exactly once over all Close calls.
C12_CloseOnce ==
    [][\A c \in ConnIds :
          /\ conn'[c].closes <= 1
          /\ conn'[c].flushes <= 1
          /\ (conn[c].kind = "tcp" /\ conn'[c].calls = conn[c].calls + 1) =>
                IF conn[c].calls = 0
                THEN /\ conn[c].alive /\ conn[c].sock = "open"
                     /\ ~conn'[c].alive
                     /\ conn'[c].sock = "closed"
                     /\ conn'[c].closes = 1
                     /\ conn'[c].flushes = 1
                     /\ conn'[c].closeRet = "nil"
                ELSE /\ conn'[c].closeRet = "already closed"
                     /\ conn'[c].closes = conn[c].closes
                     /\ conn'[c].flushes = conn[c].flushes
                     /\ conn'[c].sock = conn[c].sock
                     /\ conn'[c].alive = conn[c].alive]_vars

\* Close was called three times on a connection whose flush failed
C12_Witness ==
    \E c \in ConnIds :
        /\ conn[c].kind = "tcp"
        /\ conn[c].calls = MaxCloses
        /\ conn[c].flushErr
        /\ conn[c].closes = 1
        /\ conn[c].sock = "closed"
        /\ conn[c].closeRet = "already closed"

-----------------------------------------------------------------------------
(* Claims about the Set calls of the control interface.                    *)

\* What a Set call may change of the objects
Configured == <<services, pools, tcpListeners>>

\* C13: Service.Set with an unknown role value, with a pool name that is
\* not registered or with a docroot that is not an existing directory, and
\* Pool.Set("nodefile") with a path that is not an existing file, return an
\* error and leave every field of every object as it was.
C13_FailedSetChangesNothing ==
    [][/\ \A n \in ServiceNames :
             /\ \A v \in RoleValues :
                   (SetRole(n, v)
                      /\ v \notin {"web_server", "management", "reverse_proxy"})
                   => ret'.err # "nil" /\ UNCHANGED Configured
             /\ \A v \in PoolArgs :
                   (SetPool(n, v) /\ v \notin DOMAIN pools)
                   => ret'.err # "nil" /\ UNCHANGED Configured
             /\ \A v \in PathArgs :
                   (SetDocRoot(n, v) /\ v \notin Dirs)
                   => ret'.err # "nil" /\ UNCHANGED Configured
       /\ \A p \in PoolNames : \A a \in PathArgs :
             (SetNodeFileCall(p, a) /\ a \notin Files)
             => /\ ret'.err \notin {"nil", "pending"}
                /\ UNCHANGED Configured
                /\ setpc' = setpc]_vars

\* A Set call has failed on a service whose every field had been set, with
\* the pool's node file set too
C13_Witness ==
    \E n \in ServiceNames :
        /\ n \in DOMAIN services
        /\ ret.op = "Service.Set"
        /\ ret.err \in {"stat", "not a directory"}
        /\ services[n].Role = "PROXY"
        /\ services[n].DocRoot = "confdir"
        /\ services[n].Pool \in DOMAIN pools
        /\ pools[services[n].Pool].nodeFile = "nodes"
        /\ services[n].Enabled
        /\ \E a \in DOMAIN services[n].Listeners :
              services[n].Listeners[a] # NilListener

\* C14: Service.Set("listen", v) returns ok in every state of the service,
\* with no panic: every listener that was bound is closed, the listener map
\* is keyed by the addresses of v, and on an enabled service these are
\* bound again.
C14_SetListenSucceeds ==
    [][\A n \in ServiceNames : \A v \in ListenValues :
          SetListen(n, v) =>
              LET L == services[n].Listeners
              IN  /\ ~crashed'
                  /\ ret' = Ok("Service.Set")
                  /\ DOMAIN services'[n].Listeners = Range(v)
                  /\ \A a \in DOMAIN L :
                        L[a] # NilListener
                        => tcpListeners'[L[a]].socket = "closed"
                  /\ services[n].Enabled =>
                        \A a \in Range(v) :
                            /\ services'[n].Listeners[a] # NilListener
                            /\ tcpListeners'[services'[n].Listeners[a]].socket
                                   = "open"]_vars

\* C15: Enable binds only configured addresses that have no bound listener
\* and leaves every bound listener as it is, so that a repeated Enable
\* binds nothing anew; it sets the enabled flag, which is never cleared.
C15_EnableIdempotent ==
    [][\A n \in DOMAIN services :
          /\ services[n].Enabled
                => (n \in DOMAIN services' /\ services'[n].Enabled)
          /\ Enable(n) =>
                LET L == services[n].Listeners
                    L2 == services'[n].Listeners
                IN  /\ services'[n].Enabled
                    /\ DOMAIN L2 = DOMAIN L
                    /\ \A a \in DOMAIN L :
                          L[a] # NilListener
                          => /\ L2[a] = L[a]
                             /\ tcpListeners'[L[a]] = tcpListeners[L[a]]
                    /\ \A l \in (Len(tcpListeners) + 1)..Len(tcpListeners') :
                          /\ tcpListeners'[l].ipport \in Unbound(L)
                          /\ L2[tcpListeners'[l].ipport] = l
                    /\ Unbound(L) = {} => tcpListeners' = tcpListeners]_vars

\* Enable has been called on a service that was enabled, after a
\* Set("listen") on the enabled service had closed a listener and bound
\* its address again
C15_Witness ==
    \E n \in DOMAIN services :
        /\ ret = Ok("Service.Enable")
        /\ services[n].Enabled
        /\ \E l \in 1..Len(tcpListeners) : tcpListeners[l].socket = "closed"
        /\ \E a \in DOMAIN services[n].Listeners :
              /\ services[n].Listeners[a] # NilListener
              /\ tcpListeners[services[n].Listeners[a]].socket = "open"

-----------------------------------------------------------------------------
(* Path resolution: CleanPath (http.go:45-61) with path.Join and          *)
(* path.Clean of the Go library.  Paths are sequences of characters.      *)

MaxUriLen == 5
PathAlphabet == {"/", ".", "w", "2"}

Dot == <<".">>
DotDot == <<".", ".">>

\* strings.Split(s, sep) for a one-character sep
RECURSIVE Split(_, _)
Split(s, sep) ==
    IF Index(s, sep) = -1 THEN <<s>>
    ELSE <<SubSeq(s, 1, Index(s, sep))>>
             \o Split(SubSeq(s, Index(s, sep) + 2, Len(s)), sep)

\* path.Clean on the elements of a path: empty and "." elements dropped,
\* ".." drops the element before it, a ".." at the start of a rooted path
\* is dropped, one at the start of a relative path is kept
RECURSIVE CleanSegs(_, _, _)
CleanSegs(segs, out, rooted) ==
    IF segs = <<>> THEN out
    ELSE LET g == Head(segs)
             rest == Tail(segs)
         IN  IF g = <<>> \/ g = Dot THEN CleanSegs(rest, out, rooted)
             ELSE IF g # DotDot THEN CleanSegs(rest, Append(out, g), rooted)
             ELSE IF out # <<>> /\ out[Len(out)] # DotDot
             THEN CleanSegs(rest, SubSeq(out, 1, Len(out) - 1), rooted)
             ELSE IF rooted THEN CleanSegs(rest, out, rooted)
             ELSE CleanSegs(rest, Append(out, g), rooted)

\* strings.Join(segs, "/")
RECURSIVE JoinSegs(_)
JoinSegs(segs) ==
    IF segs = <<>> THEN <<>>
    ELSE IF Len(segs) = 1 THEN segs[1]
    ELSE segs[1] \o <<"/">> \o JoinSegs(Tail(segs))

\* path.Clean
Clean(s) ==
    LET rooted == s # <<>> /\ s[1] = "/"
        body == JoinSegs(CleanSegs(Split(s, "/"), <<>>, rooted))
    IN  IF rooted THEN <<"/">> \o body
        ELSE IF body = <<>> THEN Dot
        ELSE body

\* path.Join(a, b): empty elements are ignored, the rest joined and cleaned
Join(a, b) ==
    IF a = <<>> /\ b = <<>> THEN <<>>
    ELSE IF a = <<>> THEN Clean(b)
    ELSE IF b = <<>> THEN Clean(a)
    ELSE Clean(a \o <<"/">> \o b)

\* strings.HasPrefix
HasPrefix(s, prefix) ==
    Len(s) >= Len(prefix) /\ SubSeq(s, 1, Len(prefix)) = prefix

\* CleanPath (http.go:45-61).  With an empty root log.Fatal is called: the
\* request gets neither a path nor an error.
CleanPath(docroot, requestURI) ==
    LET r == TrimSpace(docroot)
        npath == Join(r, TrimSpace(requestURI))
    IN  IF r = <<>> THEN [err |-> "fatal", path |-> <<>>]
        ELSE IF ~HasPrefix(npath, r) THEN [err |-> "escaped", path |-> <<>>]
        ELSE [err |-> "nil", path |-> npath]

\* Document roots as Set("docroot") installs them (service.go:255-264):
\* cleaned paths of directories
SrvWww == <<"/", "s", "r", "v", "/", "w", "w", "w">>
Roots == {<<"/", "w">>, <<"/", "w", "/", "2">>, <<"w">>, <<"/">>, SrvWww}

\* Request URIs as http.ReadRequest accepts them: they start with "/"
EtcPasswd ==
    <<"/", ".", ".", "/", ".", ".", "/", "e", "t", "c", "/",
      "p", "a", "s", "s", "w", "d">>
Uris == {<<"/">> \o s : s \in SeqsUpTo(PathAlphabet, MaxUriLen)} \cup {EtcPasswd}

PathInit ==
    /\ root \in Roots
    /\ uri \in Uris
    /\ resolved = Unresolved
    /\ line = <<>>
    /\ parsed = Unparsed
    /\ PoolIdle
    /\ BackendIdle
    /\ NoServices

\* serveFile's call of CleanPath, service.go:107
Resolve ==
    /\ ~resolved.done
    /\ resolved' = [done |-> TRUE, err |-> CleanPath(root, uri).err,
                    path |-> CleanPath(root, uri).path]
    /\ UNCHANGED <<line, parsed, root, uri, poolVars, beVars, svcVars>>

SpecPath == PathInit /\ [][Resolve]_vars

\* The path is the root or lies in the directory the root names
InsideRoot(p, r) ==
    \/ p = r
    \/ HasPrefix(p, IF r[Len(r)] = "/" THEN r ELSE r \o <<"/">>)

\* C16: path resolution fails with the path-escape error or returns a path
\* that is the document root or lies inside it, never one outside it such
\* as a sibling directory whose name starts with the root's name; URI
\* "/../../etc/passwd" against docroot /srv/www fails.
C16_ResolvedPathInsideRoot ==
    resolved.done =>
        /\ \/ resolved.err = "escaped"
           \/ resolved.err = "nil" /\ InsideRoot(resolved.path, root)
        /\ (root = SrvWww /\ uri = EtcPasswd) => resolved.err = "escaped"

-----------------------------------------------------------------------------
(* Claims about a service under traffic.                                   *)

\* C17: a request handed to a reverse-proxy service for which no backend
\* connection can be had gets an error response on its channel: the pump
\* of its connection receives a response for every request it has read.
C17_ProxyRequestGetsErrorResponse ==
    \A c \in ConnIds :
        (/\ conn[c].kind = "http"
         /\ conn[c].pc = "send"
         /\ services[conn[c].svc].Role = "PROXY"
         /\ GetBackend(services[conn[c].svc].Pool) = NilConn)
            ~> (conn[c].ngot = conn[c].nread)

\* The service is enabled and a listener of it has accepted a client
TrafficStarted(n) ==
    /\ n \in DOMAIN services
    /\ services[n].Enabled
    /\ \E c \in ConnIds : conn[c].kind # "none" /\ conn[c].svc = n

\* C18: once a service is enabled and has accepted traffic its role does
\* not change any more.
C18_RoleFixedUnderTraffic ==
    [][\A n \in ServiceNames :
          TrafficStarted(n) => services'[n].Role = services[n].Role]_vars

-----------------------------------------------------------------------------
(* Claims about the reconciliation loop.                                   *)

\* C19: a pool's generation counter never decreases, and every pass that
\* finds the node file changed stamps its Backends with a generation
\* greater than that of the pass before, which the counter then holds.
C19_GenerationStrictlyIncreases ==
    [][\A p \in PoolNames :
          Registered(p) =>
              /\ pools'[p].generation >= pools[p].generation
              /\ (wpc[p] = "stat" /\ wpc'[p] = "load") => newgen'[p] > newgen[p]
              /\ (wpc[p] = "load" /\ wpc'[p] = "sleep")
                    => pools'[p].generation >= newgen[p]]_vars

\* C20: every stat of the node file is followed by the sleep before the
\* next stat: the worker is about to stat only at its start or after the
\* sleep that ends a pass, never on coming back from a stat that failed or
\* found nothing new, or from a failed open.
C20_SleepAfterEveryStat ==
    \A p \in PoolNames :
        wpc[p] = "stat" => lastStat[p] \in {"none", "loaded", "readerr"}

\* Connection c has a request that the dispatch loop has not taken: its
\* pump is handing it to HandleRequest, or it is in the queue
Undispatched(c) ==
    /\ conn[c].kind = "http"
    /\ \/ conn[c].pc = "send"
       \/ \E i \in 1..Len(services[conn[c].svc].requestQueue.buf) :
             services[conn[c].svc].requestQueue.buf[i].client = c

\* C21: the dispatch loop of a service never returns, and it takes every
\* request that is handed to the service, the later ones too.
C21_DispatchLoopKeepsRunning ==
    /\ [](\A n \in ServiceNames : rpc[n] # "returned")
    /\ \A c \in ConnIds : Undispatched(c) ~> ~Undispatched(c)

-----------------------------------------------------------------------------
(* TcpListener.acceptLoop (listener.go:57-73) with an acceptor that may   *)
(* return an error, on two listeners made by ListenTcp.                   *)

\* The pools untouched, the latest control-interface call having returned r
QuietPools(r) ==
    /\ fs = [f \in Files |-> [mtime |-> 1, content |-> <<AddrA>>]]
    /\ pools = [n \in {} |-> EmptyPool]
    /\ nodeFileLock = [p \in PoolNames |-> "free"]
    /\ wpc = [p \in PoolNames |-> "none"]
    /\ workers = [p \in PoolNames |-> 0]
    /\ mtime = [p \in PoolNames |-> 0]
    /\ newgen = [p \in PoolNames |-> 0]
    /\ lastStat = [p \in PoolNames |-> "none"]
    /\ statAdvanced = [p \in PoolNames |-> FALSE]
    /\ setpc = [p \in PoolNames |-> "idle"]
    /\ setArg = [p \in PoolNames |-> ""]
    /\ gbResult = [p \in PoolNames |-> "uncalled"]
    /\ ret = r

\* The loop stopped by an acceptor's error
AfterAcceptorStop(err) ==
    [loop |-> IF err THEN "ended" ELSE "accept",
     sock |-> IF err THEN "closed" ELSE "open",
     closes |-> IF err THEN 1 ELSE 0]

\* listener.go:68-72: after the acceptor has returned; on an error the
\* accepted socket is closed, and in both cases the loop goes on
AfterAcceptor(err) ==
    [loop |-> "accept",
     sock |-> IF err THEN "closed" ELSE "open",
     closes |-> IF err THEN 1 ELSE 0]

\* One iteration of acceptLoop: AcceptTCP returns an error (the listening
\* socket was closed, or accept failed) and the loop returns; or it returns
\* a connection, which is passed to the acceptor
acceptLoop(l) ==
    /\ ~crashed
    /\ l \in 1..Len(tcpListeners)
    /\ tcpListeners[l].loop = "accept"
    /\ \/ /\ tcpListeners' = [tcpListeners EXCEPT ![l].loop = "ended"]
          /\ UNCHANGED conn
       \/ /\ tcpListeners[l].socket = "open"
          /\ \E c \in ConnIds, err \in BOOLEAN :
                /\ conn[c].kind = "none"
                /\ conn' = [conn EXCEPT ![c] =
                       [NoConn EXCEPT
                           !.kind = IF err THEN "rejected" ELSE "accepted",
                           !.sock = AfterAcceptor(err).sock,
                           !.closes = AfterAcceptor(err).closes]]
                /\ tcpListeners' =
                       [tcpListeners EXCEPT ![l].loop = AfterAcceptor(err).loop]
    /\ UNCHANGED <<svcFrame, services, crashed, parseVars, poolVars, beVars>>

\* TcpListener.Close (listener.go:76-81) called on listener l
ListenerClose(l) ==
    /\ ~crashed
    /\ l \in 1..Len(tcpListeners)
    /\ tcpListeners[l].socket = "open"
    /\ tcpListeners' = CloseListeners(tcpListeners, {l})
    /\ UNCHANGED <<svcFrame, services, conn, crashed, parseVars, poolVars,
                   beVars>>

\* Two listeners as ListenTcp returns them, their loops started
InitListener ==
    /\ ParseIdle
    /\ BackendIdle
    /\ QuietPools(Ok("none"))
    /\ serviceLock = 0
    /\ nspc = [k \in Creators |-> "idle"]
    /\ nsArg = [k \in Creators |-> ""]
    /\ nsRet = [k \in Creators |-> "none"]
    /\ services = [n \in {} |-> 0]
    /\ created = [n \in ServiceNames |-> 0]
    /\ rpc = [n \in ServiceNames |-> "none"]
    /\ tcpListeners = <<NewTcpListener("a:80", ""), NewTcpListener("b:81", "")>>
    /\ conn = [c \in ConnIds |-> NoConn]
    /\ crashed = FALSE

ListenerNext ==
    \/ \E l \in 1..2 : acceptLoop(l)
    \/ \E l \in 1..2 : ListenerClose(l)

SpecListener == InitListener /\ [][ListenerNext]_vars

\* C22: an acceptor's error closes the accepted socket and leaves the loop
\* accepting; a loop ends only on an error of accept itself, in a step that
\* hands no connection to the acceptor, and no other listener is touched.
C22_AcceptorErrorNotFatal ==
    [][/\ \A c \in ConnIds :
             (conn[c].kind = "none" /\ conn'[c].kind = "rejected")
             => /\ conn'[c].sock = "closed"
                /\ conn'[c].closes = 1
                /\ tcpListeners' = tcpListeners
       /\ \A l \in 1..Len(tcpListeners) :
             (tcpListeners[l].loop = "accept" /\ tcpListeners'[l].loop = "ended")
             => /\ conn' = conn
                /\ tcpListeners'[l].socket = tcpListeners[l].socket
                /\ \A m \in 1..Len(tcpListeners) :
                      m # l => tcpListeners'[m] = tcpListeners[m]]_vars

\* An acceptor has failed on a listener that still accepts, while the loop
\* of the other listener has ended
C22_Witness ==
    /\ \E c \in ConnIds : conn[c].kind = "rejected" /\ conn[c].sock = "closed"
    /\ \E c \in ConnIds : conn[c].kind = "accepted" /\ conn[c].sock = "open"
    /\ \E l, m \in 1..Len(tcpListeners) :
          /\ tcpListeners[l].loop = "accept"
          /\ tcpListeners[l].socket = "open"
          /\ tcpListeners[m].loop = "ended"

-----------------------------------------------------------------------------
(* The pumps of two HTTP connections of one web-server service.            *)

\* A web-server service that is enabled, listens on one address and has
\* accepted two clients
InitPump ==
    /\ ParseIdle
    /\ BackendIdle
    /\ QuietPools(Ok("Service.Enable"))
    /\ serviceLock = 0
    /\ nspc = [k \in Creators |-> "idle"]
    /\ nsArg = [k \in Creators |-> IF k = 1 THEN "web" ELSE ""]
    /\ nsRet = [k \in Creators |-> IF k = 1 THEN "nil" ELSE "none"]
    /\ services = [n \in ServiceNames |->
                      [NewServiceObject(1) EXCEPT
                          !.Enabled = TRUE,
                          !.Listeners = [a \in {"a:80"} |-> 1]]]
    /\ created = [n \in ServiceNames |-> 1]
    /\ rpc = [n \in ServiceNames |-> "spawned"]
    /\ tcpListeners = <<NewTcpListener("a:80", "web")>>
    /\ conn = [c \in ConnIds |-> IF c \in {1, 2} THEN NewHttpConn("web") ELSE NoConn]
    /\ crashed = FALSE

PumpNext ==
    \/ \E c \in {1, 2} : ClientSend(c)
    \/ \E c \in {1, 2} : ClientClose(c)
    \/ \E c \in {1, 2} : HttpPump(c)
    \/ \E n \in ServiceNames : requestPump(n)

SpecPump == InitPump /\ [][PumpNext]_vars

\* C23: when the pump of an HTTP connection ends, the connection's socket
\* is closed, once; the step touches no other connection, no listener and
\* not the dispatch loop, and nothing closes the socket again.
C23_PumpEndClosesOnce ==
    [][\A c \in ConnIds :
          conn[c].kind = "http" =>
              /\ conn'[c].closes <= 1
              /\ (conn[c].pc # "closed" /\ conn'[c].pc = "closed")
                    => /\ conn[c].closes = 0
                       /\ conn'[c].closes = 1
                       /\ conn'[c].sock = "closed"
                       /\ \A d \in ConnIds : d # c => conn'[d] = conn[d]
                       /\ tcpListeners' = tcpListeners
                       /\ rpc' = rpc
                       /\ services' = services
              /\ conn[c].pc = "closed" => conn'[c] = conn[c]]_vars

\* The pump of one connection has ended on a read error or the peer's
\* close, the other connection's pump goes on, the listener accepts and the
\* dispatch loop waits for requests
C23_Witness ==
    \E c, d \in ConnIds :
        /\ conn[c].kind = "http" /\ conn[c].pc = "closed"
        /\ conn[c].sock = "closed" /\ conn[c].closes = 1
        /\ conn[d].kind = "http" /\ conn[d].pc = "send"
        /\ conn[d].sock = "open"
        /\ tcpListeners[1].loop = "accept" /\ tcpListeners[1].socket = "open"
        /\ rpc[conn[c].svc] = "recv"

-----------------------------------------------------------------------------
(* Claims about a Backend's connection attempts.                           *)

\* C24: when a connection attempt started by Connect completes, the
\* Backend's in-flight marker is clear, and a connection has been put on
\* the pool's ready queue if the backend accepts connections, none if it
\* does not.
C24_AttemptCompletes ==
    [][dialsDone' = dialsDone + 1 =>
          /\ connecting' = NilConn
          /\ backendQueue' = backendQueue + (IF backendUp THEN 1 ELSE 0)]_vars

-----------------------------------------------------------------------------
(* The pump of an HTTP connection from the point where it holds a response *)
(* to write (http.go:122-127).                                             *)

\* As InitPump, with each of the two pumps having read its first request
\* and received the response to it
InitWrite ==
    /\ ParseIdle
    /\ BackendIdle
    /\ QuietPools(Ok("Service.Enable"))
    /\ serviceLock = 0
    /\ nspc = [k \in Creators |-> "idle"]
    /\ nsArg = [k \in Creators |-> IF k = 1 THEN "web" ELSE ""]
    /\ nsRet = [k \in Creators |-> IF k = 1 THEN "nil" ELSE "none"]
    /\ services = [n \in ServiceNames |->
                      [NewServiceObject(1) EXCEPT
                          !.Enabled = TRUE,
                          !.Listeners = [a \in {"a:80"} |-> 1]]]
    /\ created = [n \in ServiceNames |-> 1]
    /\ rpc = [n \in ServiceNames |-> "spawned"]
    /\ tcpListeners = <<NewTcpListener("a:80", "web")>>
    /\ conn = [c \in ConnIds |->
                  IF c \in {1, 2}
                  THEN [NewHttpConn("web") EXCEPT
                           !.sent = 1, !.nread = 1, !.ngot = 1,
                           !.rchan = NewRchan, !.pc = "write"]
                  ELSE NoConn]
    /\ crashed = FALSE

SpecWrite == InitWrite /\ [][PumpNext]_vars

-----------------------------------------------------------------------------
(* Claims about the worker's passes after a failure.                       *)

\* C26: when the worker noticed that the node file's modification time had
\* advanced and then failed to open or to read the file, the next stat
\* that succeeds does not find the file unchanged: the worker goes on to
\* load it, although the modification time has not advanced again.
C26_FailedLoadRetried ==
    [][\A p \in PoolNames :
          (/\ wpc[p] = "stat"
           /\ lastStat[p] \in {"openerr", "readerr"})
          => lastStat'[p] # "unchanged"]_vars

\* C27: no two Backends of a pool's list stand for the same address.
C27_NoDuplicateAddress ==
    \A p \in DOMAIN pools :
        \A i, j \in 1..Len(pools[p].backends) :
            TrimSpace(pools[p].backends[i].Ipport)
                = TrimSpace(pools[p].backends[j].Ipport) => i = j

====
